---- MODULE Spec2Model ----
(***************************************************************************)
(* Model of the transit-proto data pipeline and map canvas:                *)
(*   - scripts/build_route_stops_map.mjs : the Route-Stop Index Builder    *)
(*   - scripts/gtfs_extract.mjs          : Route Selector, Joiner, Shape   *)
(*                                         Reducer and Subset Emitter      *)
(*   - components/MapCanvas.tsx          : load effect, selection effect,  *)
(*                                         tab / list / back handlers      *)
(* Text fields are strings; a short name is a sequence of one-character    *)
(* strings so that trimming is computed, not assumed.                      *)
(***************************************************************************)
EXTENDS Integers, Sequences, FiniteSets, TLC

\* ------------------------------------------------------------------ bounds
MaxRoutes == 2
MaxTrips == 3
MaxShapeRows == 3
MaxStopTimes == 2
MaxFeatures == 2
MaxBacks == 2

\* ----------------------------------------------------------------- helpers
Range(f) == {f[i] : i \in DOMAIN f}

SeqsUpTo(S, n) == UNION {[1..k -> S] : k \in 0..n}

Min(S) == CHOOSE x \in S : \A y \in S : x <= y

\* JavaScript's undefined, as a field or lookup result.
Undefined == "<undefined>"

\* JavaScript's null, for a selection or a property.
Null == "<null>"

\* ------------------------------------------------------- JavaScript values
\* A plain object literal {}: no own properties.
EmptyObject == [k \in {} |-> Undefined]

\* Property names every plain object inherits from Object.prototype
\* (a representative; toString, valueOf, hasOwnProperty, ... behave alike).
ObjectPrototypeKeys == {"constructor"}

\* String(Object.prototype[k]): what an inherited member becomes when it is
\* used as a property key.
InheritedMember(k) == "function Object() { [native code] }"

\* obj[k] on a plain object: an own property, else an inherited one, else
\* undefined.
GetProp(obj, k) ==
  IF k \in DOMAIN obj THEN obj[k]
  ELSE IF k \in ObjectPrototypeKeys THEN InheritedMember(k)
  ELSE Undefined

\* obj[k] = v
SetProp(obj, k, v) == [x \in DOMAIN obj \cup {k} |-> IF x = k THEN v ELSE obj[x]]

\* JavaScript truthiness of a text-or-undefined value.
Truthy(v) == v # Undefined /\ v # ""

\* Set.prototype.add on a Set kept as its insertion-ordered element list.
SetAdd(s, x) == IF x \in Range(s) THEN s ELSE Append(s, x)

\* Array.from(set): the elements in insertion order.
ArrayFrom(s) == s

\* ------------------------------------------------------------------- state
VARIABLES
  routes,         \* GTFS/routes.txt rows: [route_id, route_short_name]
  trips,          \* GTFS/trips.txt rows: [trip_id, route_id, shape_id]
  shapes,         \* GTFS/shapes.txt rows: [shape_id, shape_pt_sequence, shape_pt_lon, shape_pt_lat]
  stops,          \* GTFS/stops.txt rows: [stop_id, stop_lon, stop_lat]
  stopTimes,      \* GTFS/stop_times.txt rows: [trip_id, stop_id]
  bpc,            \* index builder: "trips" | "stopTimes" | "done"
  pending,        \* index builder: row numbers of the current pass not yet visited
  tripToRoute,    \* index builder: trip_id -> route_id (plain object)
  routeStops,     \* index builder: route_id -> Set of stop_id (plain object)
  mapFile,        \* public/data/route_stops_map.json: "absent" or route_id -> array
  run,            \* which execution of the builder script this is
  firstMapFile,   \* the file as the first execution wrote it
  xpc,            \* extractor: "start" | "selected" | "joined" | "shapesWritten" | "done" | "exit"
  selectedRouteIds,  \* extractor: Set of route_id
  selectedShapeIds,  \* extractor: Set of shape_id
  selectedTripIds,   \* extractor: Set of trip_id
  shapesFile,     \* public/data/shapes_kcm_subset.geojson: "absent", "stale" or its features
  stopsFile,      \* public/data/stops_kcm_subset.geojson: "absent", "stale" or its features
  exitCode,       \* extractor: "running", 0 or 1
  publicData,     \* the artifacts served under /data: <<>> (missing) or <<content>> each
  mcShapes,       \* MapCanvas state: shapes (route features)
  mcStops,        \* MapCanvas state: stops (stop features)
  routeStopsMap,  \* MapCanvas state: route_id -> Set of stop_id
  activeTab,      \* MapCanvas state
  selectedRouteId,   \* MapCanvas state: a display id or null
  selectedStopId,    \* MapCanvas state: a stop id or null
  viewState,      \* MapCanvas state: the camera
  initialFittedViewRef,  \* MapCanvas ref: <<>> (null) or <<view>>
  loadPc,         \* MapCanvas load effect: the fetch awaited, "loaded" or "failed"
  lastEvent,      \* the MapCanvas handler that ran last
  backViews,      \* history: the camera after each back navigation, oldest first
  fitRan,         \* history: the fits the last handler ran, of "system" and "route"
  fit,            \* a call of fitToBounds: [bounds, size, view], view <<>> until it returned
  requests        \* history: the artifacts the loaders sent a GET for, oldest first

feedVars == <<routes, trips, shapes, stops, stopTimes>>
indexVars == <<bpc, pending, tripToRoute, routeStops, mapFile, run, firstMapFile>>
extractVars == <<xpc, selectedRouteIds, selectedShapeIds, selectedTripIds,
                 shapesFile, stopsFile, exitCode>>
canvasVars == <<publicData, mcShapes, mcStops, routeStopsMap, activeTab, selectedRouteId,
                selectedStopId, viewState, initialFittedViewRef, loadPc, lastEvent,
                backViews, fitRan, fit, requests>>
vars == <<feedVars, indexVars, extractVars, canvasVars>>

Absent == "absent"

\* ------------------------------------------------ Route-Stop Index Builder
\* Rows visited in no fixed order.
AnyPendingRow(p) == p

\* forEach visits the rows in table order: the lowest row not yet visited.
NextRows(p) == {Min(p)}

\* A fresh process: the script's top-level constants.
IndexProcessStart ==
  /\ bpc = "trips"
  /\ pending = 1..Len(trips)
  /\ tripToRoute = EmptyObject
  /\ routeStops = EmptyObject

\* trips.forEach(trip => { tripToRoute[trip.trip_id] = trip.route_id; })
IndexTripRow ==
  /\ bpc = "trips"
  /\ pending # {}
  /\ \E k \in NextRows(pending) :
       /\ tripToRoute' = SetProp(tripToRoute, trips[k].trip_id, trips[k].route_id)
       /\ pending' = pending \ {k}
  /\ UNCHANGED <<feedVars, extractVars, canvasVars, bpc, routeStops, mapFile, run, firstMapFile>>

IndexTripsDone ==
  /\ bpc = "trips"
  /\ pending = {}
  /\ bpc' = "stopTimes"
  /\ pending' = 1..Len(stopTimes)
  /\ UNCHANGED <<feedVars, extractVars, canvasVars, tripToRoute, routeStops, mapFile, run, firstMapFile>>

\* The body of stopTimes.forEach for one row.
AddStopTime(rs, t2r, st) ==
  LET routeId == GetProp(t2r, st.trip_id) IN
  IF Truthy(routeId)
  THEN LET cur == IF Truthy(GetProp(rs, routeId)) THEN rs[routeId] ELSE <<>>
       IN  SetProp(rs, routeId, SetAdd(cur, st.stop_id))
  ELSE rs

IndexStopTimeRow ==
  /\ bpc = "stopTimes"
  /\ pending # {}
  /\ \E k \in NextRows(pending) :
       /\ routeStops' = AddStopTime(routeStops, tripToRoute, stopTimes[k])
       /\ pending' = pending \ {k}
  /\ UNCHANGED <<feedVars, extractVars, canvasVars, bpc, tripToRoute, mapFile, run, firstMapFile>>

\* JSON.stringify applied to the Sets themselves: a Set has no enumerable
\* properties, so no stop id is written.
RouteStopsWithoutArrayFrom(rs) == [r \in DOMAIN rs |-> <<>>]

\* routeStopsArray, then fs.writeFileSync(outputPath, JSON.stringify(...))
RouteStopsArray(rs) == [r \in DOMAIN rs |-> ArrayFrom(rs[r])]

IndexWrite ==
  /\ bpc = "stopTimes"
  /\ pending = {}
  /\ mapFile' = RouteStopsArray(routeStops)
  /\ bpc' = "done"
  /\ UNCHANGED <<feedVars, extractVars, canvasVars, pending, tripToRoute, routeStops, run, firstMapFile>>

\* The script is run again on the same GTFS directory.
IndexRerun ==
  /\ bpc = "done"
  /\ run = 1
  /\ run' = 2
  /\ firstMapFile' = mapFile
  /\ bpc' = "trips"
  /\ pending' = 1..Len(trips)
  /\ tripToRoute' = EmptyObject
  /\ routeStops' = EmptyObject
  /\ UNCHANGED <<feedVars, extractVars, canvasVars, mapFile>>

\* ------------------------------------------------------ gtfs_extract: text
\* String.prototype.trim on a sequence of characters.
Whitespace == {" "}

RECURSIVE TrimStart(_)
TrimStart(s) ==
  IF s # <<>> /\ Head(s) \in Whitespace THEN TrimStart(Tail(s)) ELSE s

RECURSIVE TrimEnd(_)
TrimEnd(s) ==
  IF s # <<>> /\ s[Len(s)] \in Whitespace
  THEN TrimEnd(SubSeq(s, 1, Len(s) - 1))
  ELSE s

Trim(s) == TrimEnd(TrimStart(s))

\* The string of a sequence of characters.
RECURSIVE Text(_)
Text(s) == IF s = <<>> THEN "" ELSE Head(s) \o Text(Tail(s))

\* The route short names riders see, chosen for the subset.
SELECT_ROUTES ==
  << <<"1", "0">>, <<"4", "0">>, <<"6", "2">>, <<"8">>, <<"4", "4">>,
     <<"7", "0">>, <<"1">>, <<"1", "1">>, <<"1", "3">>, <<"1", "4">> >>

\* Number texts of the model and their values; any other non-blank text is
\* not a number.
NumberTexts == {"0", "1", "2", "3"}
NumberValue(x) == CASE x = "0" -> 0 [] x = "1" -> 1 [] x = "2" -> 2 [] x = "3" -> 3

\* +x: a number (as <<n>>) or NaN (as <<>>). Blank text converts to 0;
\* undefined and non-numeric text convert to NaN.
UnaryPlus(x) ==
  IF x \in NumberTexts THEN <<NumberValue(x)>>
  ELSE IF x = "" THEN <<0>>
  ELSE <<>>

\* toNumber(x): n when +x is finite, else undefined (as <<>>).
ToNumber(x) == UnaryPlus(x)

\* Number.isFinite on a toNumber result.
IsFinite(n) == n # <<>>

\* Map.prototype.get / set on a Map whose iteration order is not used.
MapGet(m, k) == IF k \in DOMAIN m THEN m[k] ELSE Undefined
MapGetOr(m, k, d) == IF k \in DOMAIN m THEN m[k] ELSE d
MapSet(m, k, v) == [x \in DOMAIN m \cup {k} |-> IF x = k THEN v ELSE m[x]]

\* A Map whose iteration order is used: its entries [key, value] in
\* insertion order.
OMHas(m, k) == \E i \in DOMAIN m : m[i].key = k
OMGet(m, k) == m[CHOOSE i \in DOMAIN m : m[i].key = k].value
OMSet(m, k, v) ==
  IF OMHas(m, k)
  THEN [i \in DOMAIN m |-> IF m[i].key = k THEN [key |-> k, value |-> v] ELSE m[i]]
  ELSE Append(m, [key |-> k, value |-> v])

\* readCSV: csv-parse with trim: true strips the whitespace around a field.
ReadRoutes(rows) ==
  [i \in DOMAIN rows |->
     [route_id |-> rows[i].route_id,
      route_short_name |-> Trim(rows[i].route_short_name)]]

\* ---------------------------------------------------------- Route Selector
RECURSIVE RouteIdsByShortFrom(_, _, _)
RouteIdsByShortFrom(rs, i, m) ==
  IF i > Len(rs) THEN m
  ELSE LET short == Trim(rs[i].route_short_name) IN
       RouteIdsByShortFrom(rs, i + 1,
         IF short # <<>>
         THEN MapSet(m, short, Append(MapGetOr(m, short, <<>>), rs[i].route_id))
         ELSE m)

\* A short name keeping only the last route id registered under it.
RouteIdsByShortLastOnly(rs) ==
  LET m == RouteIdsByShortFrom(rs, 1, EmptyObject)
  IN  [k \in DOMAIN m |-> <<m[k][Len(m[k])]>>]

RouteIdsByShort(rs) == RouteIdsByShortFrom(rs, 1, EmptyObject)

\* routeById: the last row of a route id is the one kept.
RouteById(rs) ==
  [id \in {rs[i].route_id : i \in DOMAIN rs} |->
     rs[CHOOSE i \in DOMAIN rs :
          rs[i].route_id = id /\ \A j \in DOMAIN rs : rs[j].route_id = id => j <= i]]

\* new Set(SELECT_ROUTES.flatMap(sn => routeIdsByShort.get(sn) || []))
ResolveSelected(byShort) ==
  UNION {Range(MapGetOr(byShort, SELECT_ROUTES[i], <<>>)) : i \in DOMAIN SELECT_ROUTES}

\* The guard left out: an empty selection is processed like any other.
NeverAborts(sel) == FALSE

\* The guard of the fatal configuration error.
NoRouteMatched(sel) == sel = {}

ExtractSelect ==
  /\ xpc = "start"
  /\ LET sel == ResolveSelected(RouteIdsByShort(ReadRoutes(routes))) IN
       /\ selectedRouteIds' = sel
       /\ IF NoRouteMatched(sel)
          THEN xpc' = "exit" /\ exitCode' = 1
          ELSE xpc' = "selected" /\ UNCHANGED exitCode
  /\ UNCHANGED <<feedVars, indexVars, canvasVars, selectedShapeIds, selectedTripIds,
                 shapesFile, stopsFile>>

\* ------------------------------------------------- Trip-Shape-Stop Joiner
JoinShapeIds(ts, sel) ==
  {ts[i].shape_id : i \in {j \in DOMAIN ts : ts[j].route_id \in sel /\ Truthy(ts[j].shape_id)}}

\* Trip ids collected only from trips that carry a shape id.
JoinTripIdsWithShape(ts, sel) ==
  {ts[i].trip_id : i \in {j \in DOMAIN ts : ts[j].route_id \in sel /\ Truthy(ts[j].shape_id)}}

JoinTripIds(ts, sel) ==
  {ts[i].trip_id : i \in {j \in DOMAIN ts : ts[j].route_id \in sel}}

\* A join that takes a repeated trip id from its first row only.
ExtractJoinFirstRowPerTrip ==
  /\ xpc = "selected"
  /\ selectedShapeIds' = JoinShapeIds(trips, selectedRouteIds)
  /\ selectedTripIds' =
       {trips[i].trip_id :
          i \in {j \in DOMAIN trips :
                   /\ trips[j].route_id \in selectedRouteIds
                   /\ \A k \in 1..(j - 1) : trips[k].trip_id # trips[j].trip_id}}
  /\ xpc' = "joined"
  /\ UNCHANGED <<feedVars, indexVars, canvasVars, selectedRouteIds, shapesFile, stopsFile, exitCode>>

ExtractJoin ==
  /\ xpc = "selected"
  /\ selectedShapeIds' = JoinShapeIds(trips, selectedRouteIds)
  /\ selectedTripIds' = JoinTripIds(trips, selectedRouteIds)
  /\ xpc' = "joined"
  /\ UNCHANGED <<feedVars, indexVars, canvasVars, selectedRouteIds, shapesFile, stopsFile, exitCode>>

\* ------------------------------------------------------------ Shape Reducer
\* The ?? operator on a toNumber result.
OrElse(n, d) == IF n = <<>> THEN d ELSE n[1]

\* coordsByShape: shape_id -> valid points, in order of each shape's first
\* valid point row.
RECURSIVE CoordsByShapeFrom(_, _, _, _)
CoordsByShapeFrom(ss, i, selShapes, m) ==
  IF i > Len(ss) THEN m
  ELSE LET s == ss[i]
           seq == OrElse(ToNumber(s.shape_pt_sequence), 0)
           lon == ToNumber(s.shape_pt_lon)
           lat == ToNumber(s.shape_pt_lat)
       IN  IF s.shape_id \notin selShapes THEN CoordsByShapeFrom(ss, i + 1, selShapes, m)
           ELSE IF ~IsFinite(lon) \/ ~IsFinite(lat)
                THEN CoordsByShapeFrom(ss, i + 1, selShapes, m)
           ELSE LET arr == IF OMHas(m, s.shape_id) THEN OMGet(m, s.shape_id) ELSE <<>>
                    pt == [seq |-> seq, lon |-> lon[1], lat |-> lat[1]]
                IN  CoordsByShapeFrom(ss, i + 1, selShapes,
                                      OMSet(m, s.shape_id, Append(arr, pt)))

CoordsByShape(ss, selShapes) == CoordsByShapeFrom(ss, 1, selShapes, <<>>)

\* routeIdByShape: the route of the first trip of a selected route that
\* references the shape.
RECURSIVE RouteIdByShapeFrom(_, _, _, _)
RouteIdByShapeFrom(ts, i, sel, m) ==
  IF i > Len(ts) THEN m
  ELSE LET t == ts[i] IN
       RouteIdByShapeFrom(ts, i + 1, sel,
         IF t.route_id \in sel /\ Truthy(t.shape_id) /\ t.shape_id \notin DOMAIN m
         THEN MapSet(m, t.shape_id, t.route_id)
         ELSE m)

RouteIdByShape(ts, sel) == RouteIdByShapeFrom(ts, 1, sel, EmptyObject)

\* pts.sort((a, b) => a.seq - b.seq): a stable sort, ascending by seq.
RECURSIVE InsertBySeq(_, _)
InsertBySeq(sorted, p) ==
  IF sorted = <<>> THEN <<p>>
  ELSE IF sorted[Len(sorted)].seq <= p.seq THEN Append(sorted, p)
  ELSE Append(InsertBySeq(SubSeq(sorted, 1, Len(sorted) - 1), p), sorted[Len(sorted)])

RECURSIVE SortBySeqFrom(_, _, _)
SortBySeqFrom(pts, i, acc) ==
  IF i > Len(pts) THEN acc ELSE SortBySeqFrom(pts, i + 1, InsertBySeq(acc, pts[i]))

\* The points left in the order of their rows.
SortBySeqInputOrder(pts) == pts

SortBySeq(pts) == SortBySeqFrom(pts, 1, <<>>)

Coordinates(pts) == [i \in DOMAIN pts |-> <<pts[i].lon, pts[i].lat>>]

\* shapesByRoute: route_id -> the shapes grouped under it, in coordsByShape
\* order.
RECURSIVE ShapesByRouteFrom(_, _, _, _)
ShapesByRouteFrom(coords, i, byShape, m) ==
  IF i > Len(coords) THEN m
  ELSE LET shape_id == coords[i].key
           route_id == MapGet(byShape, shape_id)
           pts == SortBySeq(coords[i].value)
           entry == [shape_id |-> shape_id, coordinates |-> Coordinates(pts),
                     pointCount |-> Len(pts)]
       IN  IF ~Truthy(route_id) THEN ShapesByRouteFrom(coords, i + 1, byShape, m)
           ELSE ShapesByRouteFrom(coords, i + 1, byShape,
                  OMSet(m, route_id,
                        Append(IF OMHas(m, route_id) THEN OMGet(m, route_id) ELSE <<>>,
                               entry)))

ShapesByRoute(coords, byShape) == ShapesByRouteFrom(coords, 1, byShape, <<>>)

\* The reduce callback: the current shape replaces the longest so far only
\* when it has strictly more points.
Longer(longest, current) ==
  IF current.pointCount > longest.pointCount THEN current ELSE longest

RECURSIVE ReduceFrom(_, _, _)
ReduceFrom(list, i, acc) ==
  IF i > Len(list) THEN acc ELSE ReduceFrom(list, i + 1, Longer(acc, list[i]))

\* shapes.reduce(callback) without an initial value: starts from shapes[0].
BestShape(list) == ReduceFrom(list, 2, list[1])

ShapeFeatures(byRoute, byId) ==
  [i \in DOMAIN byRoute |->
     LET best == BestShape(byRoute[i].value)
         route_id == byRoute[i].key
     IN  [route_id |-> route_id,
          shape_id |-> best.shape_id,
          coordinates |-> best.coordinates,
          route_short_name |->
            IF route_id \in DOMAIN byId THEN Text(byId[route_id].route_short_name) ELSE Null]]

ExtractShapes ==
  /\ xpc = "joined"
  /\ shapesFile' =
       ShapeFeatures(
         ShapesByRoute(CoordsByShape(shapes, selectedShapeIds),
                       RouteIdByShape(trips, selectedRouteIds)),
         RouteById(ReadRoutes(routes)))
  /\ xpc' = "shapesWritten"
  /\ UNCHANGED <<feedVars, indexVars, canvasVars, selectedRouteIds, selectedShapeIds,
                 selectedTripIds, stopsFile, exitCode>>

\* ----------------------------------------------------------- Subset Emitter
\* Every visited stop, whatever its trip.
StopIdsOfAnyTrip(sts, selTrips) == {sts[i].stop_id : i \in DOMAIN sts}

StopIds(sts, selTrips) ==
  {sts[i].stop_id : i \in {j \in DOMAIN sts : sts[j].trip_id \in selTrips}}

RECURSIVE StopFeaturesFrom(_, _, _, _)
StopFeaturesFrom(ss, i, ids, acc) ==
  IF i > Len(ss) THEN acc
  ELSE LET s == ss[i]
           lon == ToNumber(s.stop_lon)
           lat == ToNumber(s.stop_lat)
       IN  IF s.stop_id \notin ids THEN StopFeaturesFrom(ss, i + 1, ids, acc)
           ELSE IF ~IsFinite(lon) \/ ~IsFinite(lat) THEN StopFeaturesFrom(ss, i + 1, ids, acc)
           ELSE StopFeaturesFrom(ss, i + 1, ids,
                  Append(acc, [stop_id |-> s.stop_id, coordinates |-> <<lon[1], lat[1]>>]))

StopFeatures(ss, ids) == StopFeaturesFrom(ss, 1, ids, <<>>)

ExtractStops ==
  /\ xpc = "shapesWritten"
  /\ stopsFile' = StopFeatures(stops, StopIds(stopTimes, selectedTripIds))
  /\ xpc' = "done"
  /\ exitCode' = 0
  /\ UNCHANGED <<feedVars, indexVars, canvasVars, selectedRouteIds, selectedShapeIds,
                 selectedTripIds, shapesFile>>

NextExtract ==
  \/ ExtractSelect
  \/ ExtractJoin
  \/ ExtractShapes
  \/ ExtractStops

\* The extractor before main() has run.
ExtractStart ==
  /\ xpc = "start"
  /\ selectedRouteIds = {}
  /\ selectedShapeIds = {}
  /\ selectedTripIds = {}
  /\ exitCode = "running"

\* The index builder's script not run in this specification.
IndexIdle ==
  /\ bpc = "idle"
  /\ pending = {}
  /\ tripToRoute = EmptyObject
  /\ routeStops = EmptyObject
  /\ mapFile = Absent
  /\ run = 0
  /\ firstMapFile = Absent

\* ================================================================ MapCanvas
\* A coordinate that is not a finite number (null or NaN after JSON parsing).
NotFinite == -999999

INITIAL_VIEW_STATE == [longitude |-> -122270, latitude |-> 47646, zoom |-> 12]

UI_PADDING == [top |-> 24, right |-> 24, bottom |-> 24, left |-> 360 + 12]

MAX_ZOOM == 16
MIN_ZOOM == 8

\* clientWidth / clientHeight of the map container.
CanvasSize == [width |-> 1000, height |-> 800]

Max2(a, b) == IF a >= b THEN a ELSE b
Min2(a, b) == IF a <= b THEN a ELSE b

\* Number.isFinite on a coordinate.
FiniteCoord(x) == x # NotFinite

\* The id a route is listed and selected under.
DisplayId(f) == IF Truthy(f.route_short_name) /\ f.route_short_name # Null
                THEN f.route_short_name ELSE f.route_id

\* routesList: one item per display id.
RoutesListIds(shapeFeatures) == {DisplayId(shapeFeatures[i]) : i \in DOMAIN shapeFeatures}

\* stopsList: one item per stop feature.
StopsListIds(stopFeatures) == {stopFeatures[i].stop_id : i \in DOMAIN stopFeatures}

Selected(id) == id # Null /\ id # ""

\* A filter that keeps one feature only, the first listed under the id.
FilteredShapesFirstMatch(shapeFeatures, selR) ==
  IF Selected(selR)
  THEN LET Keep(f) == DisplayId(f) = selR
           kept == SelectSeq(shapeFeatures, Keep)
       IN  IF Len(kept) > 0 THEN <<kept[1]>> ELSE kept
  ELSE shapeFeatures

\* Array.prototype.filter is SelectSeq: the kept elements, in order.
FilteredShapes(shapeFeatures, selR) ==
  IF Selected(selR)
  THEN LET Keep(f) == DisplayId(f) = selR IN SelectSeq(shapeFeatures, Keep)
  ELSE shapeFeatures

\* The stop set of the selected route: a direct match of the index key, else
\* the route_id of the first shape listed under the selected id; <<>> when
\* neither is found.
RouteStopIdsOf(shapeFeatures, rsMap, selR) ==
  IF selR \in DOMAIN rsMap THEN <<rsMap[selR]>>
  ELSE LET matching == {i \in DOMAIN shapeFeatures : DisplayId(shapeFeatures[i]) = selR} IN
       IF matching # {} /\ shapeFeatures[Min(matching)].route_id \in DOMAIN rsMap
       THEN <<rsMap[shapeFeatures[Min(matching)].route_id]>>
       ELSE <<>>

FilteredStops(stopFeatures, shapeFeatures, rsMap, tab, selR, selS) ==
  IF Selected(selS)
  THEN LET Keep(s) == s.stop_id = selS IN SelectSeq(stopFeatures, Keep)
  ELSE LET ids == IF Selected(selR) THEN RouteStopIdsOf(shapeFeatures, rsMap, selR) ELSE <<>> IN
       IF ids # <<>>
       THEN LET Keep(s) == s.stop_id \in ids[1] IN SelectSeq(stopFeatures, Keep)
       ELSE IF tab = "stops" THEN stopFeatures ELSE <<>>

\* pushCoord without the Number.isFinite test.
RECURSIVE PushCoordsNoFiniteCheck(_, _, _)
PushCoordsNoFiniteCheck(coords, i, b) ==
  IF i > Len(coords) THEN b
  ELSE LET lng == coords[i][1]
           lat == coords[i][2]
       IN  PushCoordsNoFiniteCheck(coords, i + 1,
             IF b = <<>>
             THEN <<[minLng |-> lng, minLat |-> lat, maxLng |-> lng, maxLat |-> lat]>>
             ELSE <<[minLng |-> Min2(b[1].minLng, lng), minLat |-> Min2(b[1].minLat, lat),
                     maxLng |-> Max2(b[1].maxLng, lng), maxLat |-> Max2(b[1].maxLat, lat)]>>)

\* calculateBounds: <<>> for null, else <<[minLng, minLat, maxLng, maxLat]>>.
RECURSIVE PushCoords(_, _, _)
PushCoords(coords, i, b) ==
  IF i > Len(coords) THEN b
  ELSE LET lng == coords[i][1]
           lat == coords[i][2]
       IN  PushCoords(coords, i + 1,
             IF FiniteCoord(lng) /\ FiniteCoord(lat)
             THEN IF b = <<>>
                  THEN <<[minLng |-> lng, minLat |-> lat, maxLng |-> lng, maxLat |-> lat]>>
                  ELSE <<[minLng |-> Min2(b[1].minLng, lng), minLat |-> Min2(b[1].minLat, lat),
                          maxLng |-> Max2(b[1].maxLng, lng), maxLat |-> Max2(b[1].maxLat, lat)]>>
             ELSE b)

RECURSIVE CalculateBoundsFrom(_, _, _)
CalculateBoundsFrom(features, i, b) ==
  IF i > Len(features) THEN b
  ELSE CalculateBoundsFrom(features, i + 1, PushCoords(features[i].coordinates, 1, b))

CalculateBounds(features) == CalculateBoundsFrom(features, 1, <<>>)

\* ---- WebMercatorViewport
\* Coordinates are whole web-Mercator world units, longitude growing east and
\* latitude growing north; zoom levels are whole numbers.  At zoom z one
\* pixel spans WorldScale / 2^z units, so the world is 512 pixels at zoom 0.
WorldScale == 131072

RECURSIVE Pow2(_)
Pow2(n) == IF n = 0 THEN 1 ELSE 2 * Pow2(n - 1)

\* Whether an extent of world units spans at most target pixels at zoom z.
FitsAt(extent, target, z) == extent <= (target * WorldScale) \div Pow2(z)

\* Twice WorldScale times the pixel column (row) a longitude (latitude) is
\* projected to by the viewport centred on view; rows grow downwards.
ProjectX(lng, view, size) ==
  size.width * WorldScale + 2 * (lng - view.longitude) * Pow2(view.zoom)

ProjectY(lat, view, size) ==
  size.height * WorldScale - 2 * (lat - view.latitude) * Pow2(view.zoom)

\* fitBounds with every padding taken as zero.
ViewportFitBoundsNoPadding(b, size, padding, maxZoom) ==
  LET zooms == {z \in 0..maxZoom : /\ FitsAt(b.maxLng - b.minLng, size.width, z)
                                   /\ FitsAt(b.maxLat - b.minLat, size.height, z)}
      zoom == IF zooms = {} THEN 0 ELSE CHOOSE z \in zooms : \A y \in zooms : y <= z
  IN  [longitude |-> (b.minLng + b.maxLng) \div 2,
       latitude |-> (b.minLat + b.maxLat) \div 2,
       zoom |-> zoom]

\* WebMercatorViewport.fitBounds(bounds, {padding, maxZoom}): the greatest
\* zoom, at most maxZoom, at which the box fits the canvas less its padding,
\* and the centre that puts the middle of the box in the middle of the
\* unpadded region.
ViewportFitBounds(b, size, padding, maxZoom) ==
  LET targetW == size.width - padding.left - padding.right
      targetH == size.height - padding.top - padding.bottom
      zooms == {z \in 0..maxZoom : /\ FitsAt(b.maxLng - b.minLng, targetW, z)
                                   /\ FitsAt(b.maxLat - b.minLat, targetH, z)}
      zoom == IF zooms = {} THEN 0 ELSE CHOOSE z \in zooms : \A y \in zooms : y <= z
      unitsPerHalfPixel == WorldScale \div Pow2(zoom + 1)
  IN  [longitude |-> (b.minLng + b.maxLng) \div 2
                       - (padding.left - padding.right) * unitsPerHalfPixel,
       latitude |-> (b.minLat + b.maxLat) \div 2
                       + (padding.top - padding.bottom) * unitsPerHalfPixel,
       zoom |-> zoom]

\* fitToBounds without the lower clamp of the zoom.
FitToBoundsUnclamped(b, size) ==
  LET v == ViewportFitBounds(b, size, UI_PADDING, MAX_ZOOM) IN
  [longitude |-> v.longitude, latitude |-> v.latitude, zoom |-> v.zoom]

FitToBounds(b, size) ==
  LET v == ViewportFitBounds(b, size, UI_PADDING, MAX_ZOOM) IN
  [longitude |-> v.longitude, latitude |-> v.latitude, zoom |-> Max2(v.zoom, MIN_ZOOM)]

\* The system view restored with no selection: the hardcoded default, always.
HardcodedView(ref) == INITIAL_VIEW_STATE

\* initialFittedViewRef.current ?? INITIAL_VIEW_STATE
RestoredView(ref) == IF ref # <<>> THEN ref[1] ELSE INITIAL_VIEW_STATE

\* A fit that runs whenever any shape is shown, selected or not.
SelectionFitsAnyShapes(fShapes, selR) == Len(fShapes) > 0

\* The first test of the selection effect: a route is selected and has
\* features to frame, so calculateBounds and fitToBounds run.
SelectionFits(fShapes, selR) == Selected(selR) /\ Len(fShapes) > 0

\* The fits a run of the selection effect makes.
EffectFits(shapeFeatures, selR) ==
  IF SelectionFits(FilteredShapes(shapeFeatures, selR), selR) THEN {"route"} ELSE {}

\* A selection effect without its deselect branch: the camera stays where the
\* last selection or the user put it.
SelectionEffectKeepsView(shapeFeatures, stopFeatures, rsMap, tab, selR, selS, view, ref) ==
  LET fShapes == FilteredShapes(shapeFeatures, selR)
      fStops == FilteredStops(stopFeatures, shapeFeatures, rsMap, tab, selR, selS)
  IN  IF Selected(selR) /\ Len(fShapes) > 0
      THEN LET b == CalculateBounds(fShapes) IN
           IF b # <<>> THEN FitToBounds(b[1], CanvasSize) ELSE view
      ELSE IF Selected(selS) /\ Len(fStops) > 0
      THEN [longitude |-> fStops[1].coordinates[1],
            latitude |-> fStops[1].coordinates[2],
            zoom |-> 16]
      ELSE view

\* A selection effect that frames a selected stop like a route: a fit of the
\* stop's one-point box within the padded canvas.
SelectionEffectFitsStop(shapeFeatures, stopFeatures, rsMap, tab, selR, selS, view, ref) ==
  LET fShapes == FilteredShapes(shapeFeatures, selR)
      fStops == FilteredStops(stopFeatures, shapeFeatures, rsMap, tab, selR, selS)
  IN  IF Selected(selR) /\ Len(fShapes) > 0
      THEN LET b == CalculateBounds(fShapes) IN
           IF b # <<>> THEN FitToBounds(b[1], CanvasSize) ELSE view
      ELSE IF Selected(selS) /\ Len(fStops) > 0
      THEN FitToBounds([minLng |-> fStops[1].coordinates[1],
                        minLat |-> fStops[1].coordinates[2],
                        maxLng |-> fStops[1].coordinates[1],
                        maxLat |-> fStops[1].coordinates[2]], CanvasSize)
      ELSE IF ~Selected(selR) /\ ~Selected(selS) THEN RestoredView(ref)
      ELSE view

\* The selection effect: the view state after it ran.
SelectionEffect(shapeFeatures, stopFeatures, rsMap, tab, selR, selS, view, ref) ==
  LET fShapes == FilteredShapes(shapeFeatures, selR)
      fStops == FilteredStops(stopFeatures, shapeFeatures, rsMap, tab, selR, selS)
  IN  IF SelectionFits(fShapes, selR)
      THEN LET b == CalculateBounds(fShapes) IN
           IF b # <<>> THEN FitToBounds(b[1], CanvasSize) ELSE view
      ELSE IF Selected(selS) /\ Len(fStops) > 0
      THEN [longitude |-> fStops[1].coordinates[1],
            latitude |-> fStops[1].coordinates[2],
            zoom |-> 16]
      ELSE IF ~Selected(selR) /\ ~Selected(selS) THEN RestoredView(ref)
      ELSE view

\* fetchRouteStopsMap: each array converted back to a Set.
LoadedRouteStopsMap(file) == [r \in DOMAIN file |-> Range(file[r])]

\* ------------------------------------------------------ MapCanvas: handlers
Tabs == {"system", "routes", "stops", "components"}

\* Views the user can pan or zoom to.
UserViews == {[longitude |-> 5, latitude |-> 5, zoom |-> 10]}

\* fetch(url, {cache: 'no-store'}): the response to one GET, <<>> when it is
\* not ok (the artifact is missing), else <<body>>.
Fetch(artifact) == publicData[artifact]

\* One call of a loader: the GETs it sends and what it returns, <<>> when
\* it throws its Error, else <<value>>.
FetchShapesKCM ==
  [gets |-> <<"shapes">>, returned |-> Fetch("shapes")]

FetchStopsKCMWithFallback ==
  [gets |-> <<"stops">>,
   returned |-> IF Fetch("stops") = <<>> THEN << <<>> >> ELSE Fetch("stops")]

FetchStopsKCM ==
  [gets |-> <<"stops">>, returned |-> Fetch("stops")]

FetchRouteStopsMap ==
  [gets |-> <<"routeStops">>,
   returned |-> IF Fetch("routeStops") = <<>> THEN <<>>
                ELSE <<LoadedRouteStopsMap(Fetch("routeStops")[1])>>]

\* A load effect that stores the route features as soon as they arrive.
LoadFetchShapesStoresAtOnce ==
  /\ loadPc = "fetchShapes"
  /\ requests' = requests \o FetchShapesKCM.gets
  /\ loadPc' = IF FetchShapesKCM.returned = <<>> THEN "failed" ELSE "fetchStops"
  /\ mcShapes' = IF FetchShapesKCM.returned = <<>> THEN mcShapes ELSE FetchShapesKCM.returned[1]
  /\ lastEvent' = "fetch"
  /\ fitRan' = {}
  /\ UNCHANGED <<feedVars, indexVars, extractVars, fit, publicData, backViews, mcStops,
                 routeStopsMap,
                 activeTab, selectedRouteId, selectedStopId, viewState,
                 initialFittedViewRef>>

\* The load effect, one awaited loader at a time; a loader that throws ends
\* the effect in its catch block.
LoadFetchShapes ==
  /\ loadPc = "fetchShapes"
  /\ requests' = requests \o FetchShapesKCM.gets
  /\ loadPc' = IF FetchShapesKCM.returned = <<>> THEN "failed" ELSE "fetchStops"
  /\ lastEvent' = "fetch"
  /\ fitRan' = {}
  /\ UNCHANGED <<feedVars, indexVars, extractVars, fit, publicData, backViews, mcShapes, mcStops,
                 routeStopsMap,
                 activeTab, selectedRouteId, selectedStopId, viewState,
                 initialFittedViewRef>>

LoadFetchStops ==
  /\ loadPc = "fetchStops"
  /\ requests' = requests \o FetchStopsKCM.gets
  /\ loadPc' = IF FetchStopsKCM.returned = <<>> THEN "failed" ELSE "fetchMap"
  /\ lastEvent' = "fetch"
  /\ fitRan' = {}
  /\ UNCHANGED <<feedVars, indexVars, extractVars, fit, publicData, backViews, mcShapes, mcStops,
                 routeStopsMap,
                 activeTab, selectedRouteId, selectedStopId, viewState,
                 initialFittedViewRef>>

\* The third fetch and, when it succeeds, the rest of the load effect: the
\* three state setters, the fit over all loaded routes, and the selection
\* effect of the render that follows.
LoadFetchMap ==
  /\ loadPc = "fetchMap"
  /\ requests' = requests \o FetchRouteStopsMap.gets
  /\ lastEvent' = "fetch"
  /\ IF FetchRouteStopsMap.returned = <<>>
     THEN /\ loadPc' = "failed"
          /\ fitRan' = {}
          /\ UNCHANGED <<mcShapes, mcStops, routeStopsMap, viewState, initialFittedViewRef>>
     ELSE LET routeFeatures == FetchShapesKCM.returned[1]
              stopFeatures == FetchStopsKCM.returned[1]
              b == IF Len(routeFeatures) > 0 THEN CalculateBounds(routeFeatures) ELSE <<>>
              ref == IF b # <<>> THEN <<FitToBounds(b[1], CanvasSize)>> ELSE initialFittedViewRef
              rsMap == FetchRouteStopsMap.returned[1]
          IN  /\ loadPc' = "loaded"
              /\ mcShapes' = routeFeatures
              /\ mcStops' = stopFeatures
              /\ routeStopsMap' = rsMap
              /\ initialFittedViewRef' = ref
              /\ viewState' = SelectionEffect(routeFeatures, stopFeatures, rsMap, activeTab,
                                selectedRouteId, selectedStopId,
                                IF b # <<>> THEN ref[1] ELSE viewState, ref)
              /\ fitRan' = (IF Len(routeFeatures) > 0 THEN {"system"} ELSE {})
                             \cup EffectFits(routeFeatures, selectedRouteId)
  /\ UNCHANGED <<feedVars, indexVars, extractVars, fit, publicData, backViews, activeTab,
                 selectedRouteId, selectedStopId>>

\* An onTabChange that sets the active tab and leaves the selection alone.
TabChangeKeepsSelection ==
  \E tab \in Tabs :
    /\ activeTab' = tab
    /\ viewState' =
         IF tab # activeTab
         THEN SelectionEffect(mcShapes, mcStops, routeStopsMap, tab, selectedRouteId,
                              selectedStopId, viewState, initialFittedViewRef)
         ELSE viewState
    /\ fitRan' = IF tab # activeTab THEN EffectFits(mcShapes, selectedRouteId) ELSE {}
    /\ lastEvent' = "tab"
    /\ UNCHANGED <<feedVars, indexVars, extractVars, fit, publicData, requests, backViews,
                   mcShapes, mcStops, routeStopsMap, selectedRouteId, selectedStopId,
                   initialFittedViewRef, loadPc>>

\* NavRail onTabChange, and the selection effect when a dependency changed.
TabChange ==
  \E tab \in Tabs :
    /\ activeTab' = tab
    /\ selectedRouteId' = Null
    /\ selectedStopId' = Null
    /\ viewState' =
         IF tab # activeTab \/ selectedRouteId # Null \/ selectedStopId # Null
         THEN SelectionEffect(mcShapes, mcStops, routeStopsMap, tab, Null, Null,
                              viewState, initialFittedViewRef)
         ELSE viewState
    /\ fitRan' =
         IF tab # activeTab \/ selectedRouteId # Null \/ selectedStopId # Null
         THEN EffectFits(mcShapes, Null)
         ELSE {}
    /\ lastEvent' = "tab"
    /\ UNCHANGED <<feedVars, indexVars, extractVars, fit, publicData, requests, backViews, mcShapes, mcStops,
                 routeStopsMap,
                   initialFittedViewRef, loadPc>>

\* A list that stays clickable beside the detail view of a selection.
SelectItemBesideDetail ==
  /\ activeTab # "system"
  /\ \E id \in (IF activeTab = "routes" THEN RoutesListIds(mcShapes) ELSE StopsListIds(mcStops)) :
       /\ IF activeTab = "routes"
          THEN selectedRouteId' = id /\ UNCHANGED selectedStopId
          ELSE selectedStopId' = id /\ UNCHANGED selectedRouteId
       /\ viewState' = SelectionEffect(mcShapes, mcStops, routeStopsMap, activeTab,
                         selectedRouteId', selectedStopId', viewState, initialFittedViewRef)
       /\ fitRan' = EffectFits(mcShapes, selectedRouteId')
  /\ lastEvent' = "select"
  /\ UNCHANGED <<feedVars, indexVars, extractVars, fit, publicData, requests, backViews,
                 mcShapes, mcStops, routeStopsMap,
                 activeTab, initialFittedViewRef, loadPc>>

\* A click on a list item; the list is rendered on every tab but "system"
\* while nothing is selected.
SelectItem ==
  /\ ~Selected(selectedRouteId) /\ ~Selected(selectedStopId)
  /\ activeTab # "system"
  /\ \E id \in (IF activeTab = "routes" THEN RoutesListIds(mcShapes) ELSE StopsListIds(mcStops)) :
       /\ IF activeTab = "routes"
          THEN selectedRouteId' = id /\ UNCHANGED selectedStopId
          ELSE selectedStopId' = id /\ UNCHANGED selectedRouteId
       /\ viewState' = SelectionEffect(mcShapes, mcStops, routeStopsMap, activeTab,
                         selectedRouteId', selectedStopId', viewState, initialFittedViewRef)
       /\ fitRan' = EffectFits(mcShapes, selectedRouteId')
  /\ lastEvent' = "select"
  /\ UNCHANGED <<feedVars, indexVars, extractVars, fit, publicData, requests, backViews, mcShapes, mcStops,
                 routeStopsMap,
                 activeTab, initialFittedViewRef, loadPc>>

\* The back button of the detail view.
Back ==
  /\ Selected(selectedRouteId) \/ Selected(selectedStopId)
  /\ Len(backViews) < MaxBacks
  /\ selectedRouteId' = Null
  /\ selectedStopId' = Null
  /\ viewState' = SelectionEffect(mcShapes, mcStops, routeStopsMap, activeTab, Null, Null,
                                  viewState, initialFittedViewRef)
  /\ fitRan' = EffectFits(mcShapes, Null)
  /\ lastEvent' = "back"
  /\ backViews' = Append(backViews, viewState')
  /\ UNCHANGED <<feedVars, indexVars, extractVars, fit, publicData, requests, mcShapes, mcStops, routeStopsMap,
                 activeTab, initialFittedViewRef, loadPc>>

\* A pan handler that also drops the loaded index.
PanDropsIndex ==
  /\ \E v \in UserViews : viewState' = v
  /\ lastEvent' = "pan"
  /\ fitRan' = {}
  /\ routeStopsMap' = EmptyObject
  /\ UNCHANGED <<feedVars, indexVars, extractVars, fit, publicData, requests, backViews,
                 mcShapes, mcStops,
                 activeTab, selectedRouteId, selectedStopId, initialFittedViewRef, loadPc>>

\* DeckGL onViewStateChange: the user pans or zooms the map.
Pan ==
  /\ \E v \in UserViews : viewState' = v
  /\ lastEvent' = "pan"
  /\ fitRan' = {}
  /\ UNCHANGED <<feedVars, indexVars, extractVars, fit, publicData, requests, backViews, mcShapes, mcStops,
                 routeStopsMap,
                 activeTab, selectedRouteId, selectedStopId, initialFittedViewRef, loadPc>>

\* The hover handlers of the map layers (setHoveredRoute, setHoveredStop):
\* they write hover state only, which no modelled state depends on.
Hover ==
  /\ lastEvent' = "hover"
  /\ fitRan' = {}
  /\ UNCHANGED <<feedVars, indexVars, extractVars, fit, publicData, requests, backViews,
                 mcShapes, mcStops, routeStopsMap, viewState,
                 activeTab, selectedRouteId, selectedStopId, initialFittedViewRef, loadPc>>

\* A click on a filter button (setOpenFilter): it opens or closes a filter
\* panel, which no modelled state depends on.
ToggleFilter ==
  /\ lastEvent' = "filter"
  /\ fitRan' = {}
  /\ UNCHANGED <<feedVars, indexVars, extractVars, fit, publicData, requests, backViews,
                 mcShapes, mcStops, routeStopsMap, viewState,
                 activeTab, selectedRouteId, selectedStopId, initialFittedViewRef, loadPc>>

NextCanvas ==
  \/ LoadFetchShapes
  \/ LoadFetchStops
  \/ LoadFetchMap
  \/ TabChange
  \/ SelectItem
  \/ Back
  \/ Pan
  \/ Hover
  \/ ToggleFilter

\* MapCanvas as mounted: the useState / useRef initial values, the load
\* effect about to issue its first fetch.
CanvasMounted ==
  /\ mcShapes = <<>>
  /\ mcStops = <<>>
  /\ routeStopsMap = EmptyObject
  /\ activeTab = "system"
  /\ selectedRouteId = Null
  /\ selectedStopId = Null
  /\ viewState = INITIAL_VIEW_STATE
  /\ initialFittedViewRef = <<>>
  /\ loadPc = "fetchShapes"
  /\ lastEvent = "mount"
  /\ backViews = <<>>
  /\ fitRan = {}
  /\ requests = <<>>

\* No call of fitToBounds is under way.
FitterIdle == fit = [bounds |-> <<>>, size |-> <<>>, view |-> <<>>]

\* No artifact is served: the offline scripts run on their own.
NothingServed == publicData = [shapes |-> <<>>, stops |-> <<>>, routeStops |-> <<>>]

IndexTripIds == {"t1", "t2"}
IndexVisitTripIds == {"t1", "t2", "constructor"}
IndexRouteIds == {"r1", "r2"}
IndexStopIds == {"s1", "s2"}

IndexTripRows == [trip_id : IndexTripIds, route_id : IndexRouteIds, shape_id : {""}]
IndexStopTimeRows == [trip_id : IndexVisitTripIds, stop_id : IndexStopIds]

InitIndex ==
  /\ trips \in SeqsUpTo(IndexTripRows, MaxTrips)
  /\ stopTimes \in SeqsUpTo(IndexStopTimeRows, MaxStopTimes)
  /\ routes = <<>>
  /\ shapes = <<>>
  /\ stops = <<>>
  /\ IndexProcessStart
  /\ ExtractStart
  /\ CanvasMounted
  /\ FitterIdle
  /\ NothingServed
  /\ shapesFile = Absent
  /\ stopsFile = Absent
  /\ mapFile = Absent
  /\ run = 1
  /\ firstMapFile = Absent

NextIndex ==
  \/ IndexTripRow
  \/ IndexTripsDone
  \/ IndexStopTimeRow
  \/ IndexWrite
  \/ IndexRerun

SpecIndex == InitIndex /\ [][NextIndex]_vars

\* --------------------------------------------------- gtfs_extract: inputs
Stale == "stale"

ShortNameTexts ==
  { <<"1", "0">>, <<" ", "1", "0", " ">>, <<"1">>, <<"9", "9">>, <<>> }

SelectRouteRows == [route_id : {"r1", "r2", "r3"}, route_short_name : ShortNameTexts]

FixedTrips ==
  << [trip_id |-> "t1", route_id |-> "r1", shape_id |-> "sA"],
     [trip_id |-> "t2", route_id |-> "r2", shape_id |-> "sB"] >>

FixedShapes ==
  << [shape_id |-> "sA", shape_pt_sequence |-> "1", shape_pt_lon |-> "1", shape_pt_lat |-> "2"],
     [shape_id |-> "sB", shape_pt_sequence |-> "1", shape_pt_lon |-> "2", shape_pt_lat |-> "3"] >>

FixedStops ==
  << [stop_id |-> "s1", stop_lon |-> "1", stop_lat |-> "2"],
     [stop_id |-> "s2", stop_lon |-> "2", stop_lat |-> "3"] >>

FixedStopTimes ==
  << [trip_id |-> "t1", stop_id |-> "s1"],
     [trip_id |-> "t2", stop_id |-> "s2"] >>

\* Route Selector: the route table varies, the output directory may hold
\* files of an earlier run.
InitSelect ==
  /\ routes \in SeqsUpTo(SelectRouteRows, MaxRoutes)
  /\ trips = FixedTrips
  /\ shapes = FixedShapes
  /\ stops = FixedStops
  /\ stopTimes = FixedStopTimes
  /\ IndexIdle
  /\ ExtractStart
  /\ CanvasMounted
  /\ FitterIdle
  /\ NothingServed
  /\ shapesFile \in {Absent, Stale}
  /\ stopsFile = shapesFile

SpecSelect == InitSelect /\ [][NextExtract]_vars

RoutesBothSelected ==
  << [route_id |-> "r1", route_short_name |-> <<"1", "0">>],
     [route_id |-> "r2", route_short_name |-> <<"4", "0">>] >>

RoutesOneSelected ==
  << [route_id |-> "r1", route_short_name |-> <<"1", "0">>],
     [route_id |-> "r2", route_short_name |-> <<"9", "9">>] >>

RoutesNoneSelected ==
  << [route_id |-> "r1", route_short_name |-> <<"9", "9">>] >>

\* Shape Reducer: trips and shape points vary.
ReduceTripRows == [trip_id : {"t1"}, route_id : {"r1", "r2"}, shape_id : {"sA", "sB"}]

ReduceShapeRows ==
  [shape_id : {"sA", "sB"}, shape_pt_sequence : {"1"},
   shape_pt_lon : {"1", "x"}, shape_pt_lat : {"2"}]

InitReduce ==
  /\ routes \in {RoutesBothSelected, RoutesOneSelected, RoutesNoneSelected}
  /\ trips \in SeqsUpTo(ReduceTripRows, MaxTrips)
  /\ shapes \in SeqsUpTo(ReduceShapeRows, MaxShapeRows)
  /\ stops = FixedStops
  /\ stopTimes = FixedStopTimes
  /\ IndexIdle
  /\ ExtractStart
  /\ CanvasMounted
  /\ FitterIdle
  /\ NothingServed
  /\ shapesFile = Absent
  /\ stopsFile = Absent

SpecReduce == InitReduce /\ [][NextExtract]_vars

\* Subset Emitter: trips, stop visits and stop coordinates vary; "t9" is a
\* trip id no trip row carries, route r2 is not selected.
StopsTripRows ==
  { [trip_id |-> "t1", route_id |-> "r1", shape_id |-> ""],
    [trip_id |-> "t2", route_id |-> "r2", shape_id |-> ""],
    [trip_id |-> "t1", route_id |-> "r2", shape_id |-> ""] }

StopsStopTimeRows == [trip_id : {"t1", "t2", "t9"}, stop_id : {"s1", "s2"}]

CoordTexts == {"1", "", "x"}

StopTables ==
  { << [stop_id |-> "s1", stop_lon |-> a, stop_lat |-> "2"],
       [stop_id |-> "s2", stop_lon |-> "3", stop_lat |-> b] >> :
    a \in CoordTexts, b \in CoordTexts }

InitStops ==
  /\ routes \in {RoutesOneSelected, RoutesNoneSelected}
  /\ trips \in SeqsUpTo(StopsTripRows, MaxTrips)
  /\ shapes = FixedShapes
  /\ stops \in StopTables
  /\ stopTimes \in SeqsUpTo(StopsStopTimeRows, MaxStopTimes)
  /\ IndexIdle
  /\ ExtractStart
  /\ CanvasMounted
  /\ FitterIdle
  /\ NothingServed
  /\ shapesFile = Absent
  /\ stopsFile = Absent

SpecStops == InitStops /\ [][NextExtract]_vars

\* Both build scripts on one feed: route r1 is selected and r2 is not; trip
\* ids repeat across routes; "t9" is a trip id no trip row carries; stop s2
\* has no numeric longitude.
AgreeStopTimeRows ==
  [trip_id : {"t1", "t2", "t9"}, stop_id : {"s1"}] \cup {[trip_id |-> "t1", stop_id |-> "s2"]}

AgreeStops ==
  << [stop_id |-> "s1", stop_lon |-> "1", stop_lat |-> "2"],
     [stop_id |-> "s2", stop_lon |-> "x", stop_lat |-> "3"] >>

InitAgree ==
  /\ routes = RoutesOneSelected
  /\ trips \in SeqsUpTo(StopsTripRows, MaxTrips)
  /\ shapes = FixedShapes
  /\ stops = AgreeStops
  /\ stopTimes \in SeqsUpTo(AgreeStopTimeRows, MaxStopTimes)
  /\ IndexProcessStart
  /\ run = 2
  /\ firstMapFile = Absent
  /\ mapFile = Absent
  /\ ExtractStart
  /\ CanvasMounted
  /\ FitterIdle
  /\ NothingServed
  /\ shapesFile = Absent
  /\ stopsFile = Absent

\* The two scripts are separate processes: their steps interleave.
NextAgree ==
  \/ IndexTripRow
  \/ IndexTripsDone
  \/ IndexStopTimeRow
  \/ IndexWrite
  \/ ExtractSelect
  \/ ExtractJoin
  \/ ExtractShapes
  \/ ExtractStops

SpecAgree == InitAgree /\ [][NextAgree]_vars

\* The index from the builder to the map: the builder writes its file into
\* public/data, from where it is served to fetchRouteStopsMap. Stops are
\* visited twice and in either order, trip ids repeat across routes.
RoundTripStopTimeRows == [trip_id : {"t1", "t2"}, stop_id : {"s1", "s2"}]

InitRoundTrip ==
  /\ routes = <<>>
  /\ trips \in SeqsUpTo(StopsTripRows, MaxTrips)
  /\ shapes = <<>>
  /\ stops = <<>>
  /\ stopTimes \in SeqsUpTo(RoundTripStopTimeRows, MaxStopTimes)
  /\ IndexProcessStart
  /\ run = 2
  /\ firstMapFile = Absent
  /\ mapFile = Absent
  /\ ExtractStart
  /\ shapesFile = Absent
  /\ stopsFile = Absent
  /\ CanvasMounted
  /\ FitterIdle
  /\ publicData = [shapes |-> << <<>> >>, stops |-> << <<>> >>, routeStops |-> <<>>]

\* The file the builder wrote under public/data is what /data serves.
ServeIndex ==
  /\ bpc = "done"
  /\ publicData.routeStops = <<>>
  /\ publicData' = [publicData EXCEPT !.routeStops = <<mapFile>>]
  /\ UNCHANGED <<feedVars, indexVars, extractVars, mcShapes, mcStops, routeStopsMap, activeTab,
                 selectedRouteId, selectedStopId, viewState, initialFittedViewRef, loadPc,
                 lastEvent, backViews, fitRan, fit, requests>>

NextRoundTrip ==
  \/ IndexTripRow
  \/ IndexTripsDone
  \/ IndexStopTimeRow
  \/ IndexWrite
  \/ ServeIndex
  \/ LoadFetchShapes
  \/ LoadFetchStops
  \/ LoadFetchMap

SpecRoundTrip == InitRoundTrip /\ [][NextRoundTrip]_vars

\* ------------------------------------------------------- MapCanvas: inputs
\* The artifacts served under /data: route features with and without a short
\* name, with finite coordinates or none; a missing file is a failed fetch.
CanvasLine(r) ==
  IF r = "r1" THEN << <<2, 4>>, <<6, 2>> >> ELSE << <<2000000, 4>>, <<6, 200>> >>

CanvasShapeFeatures ==
  {[route_id |-> r, shape_id |-> "sA", coordinates |-> c, route_short_name |-> n] :
     r \in {"r1", "r2"}, n \in {"10", Null},
     c \in {<< <<NotFinite, 4>> >>}} \cup
  {[route_id |-> r, shape_id |-> "sA", coordinates |-> CanvasLine(r), route_short_name |-> n] :
     r \in {"r1", "r2"}, n \in {"10", Null}}

CanvasStopCollections ==
  { <<>>,
    << [stop_id |-> "s1", coordinates |-> <<2, 4>>] >>,
    << [stop_id |-> "s1", coordinates |-> <<2, 4>>],
       [stop_id |-> "s2", coordinates |-> <<6, 6>>] >> }

CanvasMapFiles == { [r \in {"r1"} |-> <<"s1">>] }

InitCanvas ==
  /\ routes = <<>>
  /\ trips = <<>>
  /\ shapes = <<>>
  /\ stops = <<>>
  /\ stopTimes = <<>>
  /\ bpc = "idle"
  /\ pending = {}
  /\ tripToRoute = EmptyObject
  /\ routeStops = EmptyObject
  /\ run = 0
  /\ firstMapFile = Absent
  /\ ExtractStart
  /\ shapesFile = Absent
  /\ stopsFile = Absent
  /\ mapFile = Absent
  /\ CanvasMounted
  /\ FitterIdle
  /\ publicData \in
       [shapes : {<<>>} \cup {<<c>> : c \in SeqsUpTo(CanvasShapeFeatures, MaxFeatures)},
        stops : {<<>>} \cup {<<c>> : c \in CanvasStopCollections},
        routeStops : {<<>>} \cup {<<m>> : m \in CanvasMapFiles}]

SpecCanvas == InitCanvas /\ [][NextCanvas]_vars

\* Inputs for the stop filter: every artifact is served; route ids share a
\* short name or have none; the index lists one route, both routes, or a
\* route of the feed whose route id reads like the short name of another.
FilterShapeFeatures ==
  {[route_id |-> r, shape_id |-> "sA", coordinates |-> CanvasLine(r), route_short_name |-> n] :
     r \in {"r1", "r2"}, n \in {"10", Null}}

FilterStops ==
  << [stop_id |-> "s1", coordinates |-> <<2, 4>>],
     [stop_id |-> "s2", coordinates |-> <<6, 6>>] >>

FilterMapFiles ==
  { [r \in {"r1"} |-> <<"s1">>],
    [r \in {"r1", "r2"} |-> IF r = "r1" THEN <<"s1">> ELSE <<"s2">>],
    [r \in {"r1", "10"} |-> IF r = "r1" THEN <<"s1">> ELSE <<"s2">>] }

InitFilter ==
  /\ routes = <<>>
  /\ trips = <<>>
  /\ shapes = <<>>
  /\ stops = <<>>
  /\ stopTimes = <<>>
  /\ bpc = "idle"
  /\ pending = {}
  /\ tripToRoute = EmptyObject
  /\ routeStops = EmptyObject
  /\ run = 0
  /\ firstMapFile = Absent
  /\ ExtractStart
  /\ shapesFile = Absent
  /\ stopsFile = Absent
  /\ mapFile = Absent
  /\ CanvasMounted
  /\ FitterIdle
  /\ publicData \in
       [shapes : {<<c>> : c \in SeqsUpTo(FilterShapeFeatures, MaxFeatures)},
        stops : {<<FilterStops>>},
        routeStops : {<<m>> : m \in FilterMapFiles}]

SpecFilter == InitFilter /\ [][NextCanvas]_vars

\* Shape points: both routes are selected; the point rows of shape sA vary in
\* order, sequence number and longitude text (numeric, non-numeric, blank,
\* missing), those of sB in latitude text; the trips give r1 one or two
\* candidate shapes and r2 a shape, a blank shape id or a shape with no rows.
PointsTripTables ==
  { << [trip_id |-> "t1", route_id |-> "r1", shape_id |-> "sA"],
       [trip_id |-> "t2", route_id |-> "r2", shape_id |-> "sB"] >>,
    << [trip_id |-> "t1", route_id |-> "r1", shape_id |-> "sA"],
       [trip_id |-> "t2", route_id |-> "r1", shape_id |-> "sB"] >>,
    << [trip_id |-> "t1", route_id |-> "r1", shape_id |-> "sA"],
       [trip_id |-> "t2", route_id |-> "r2", shape_id |-> ""] >>,
    << [trip_id |-> "t1", route_id |-> "r1", shape_id |-> "sA"],
       [trip_id |-> "t2", route_id |-> "r2", shape_id |-> "sC"] >> }

PointRows ==
  [shape_id : {"sA"}, shape_pt_sequence : {"1", "2"},
   shape_pt_lon : {"1", "3", "x", "", Undefined}, shape_pt_lat : {"2"}] \cup
  [shape_id : {"sB"}, shape_pt_sequence : {"1"},
   shape_pt_lon : {"1"}, shape_pt_lat : {"2", "x"}]

InitPoints ==
  /\ routes = RoutesBothSelected
  /\ trips \in PointsTripTables
  /\ shapes \in SeqsUpTo(PointRows, MaxShapeRows)
  /\ stops = FixedStops
  /\ stopTimes = FixedStopTimes
  /\ IndexIdle
  /\ ExtractStart
  /\ CanvasMounted
  /\ FitterIdle
  /\ NothingServed
  /\ shapesFile = Absent
  /\ stopsFile = Absent

SpecPoints == InitPoints /\ [][NextExtract]_vars

\* Trip joins: route r1 is selected, r2 is not; trips carry a shape id, a
\* blank one or none.
JoinTripRows ==
  [trip_id : {"t1", "t2"}, route_id : {"r1", "r2"}, shape_id : {"sA", "", Undefined}]

InitJoin ==
  /\ routes = RoutesOneSelected
  /\ trips \in SeqsUpTo(JoinTripRows, MaxTrips)
  /\ shapes = FixedShapes
  /\ stops = FixedStops
  /\ stopTimes = FixedStopTimes
  /\ IndexIdle
  /\ ExtractStart
  /\ CanvasMounted
  /\ FitterIdle
  /\ NothingServed
  /\ shapesFile = Absent
  /\ stopsFile = Absent

SpecJoin == InitJoin /\ [][NextExtract]_vars

\* --------------------------------------------------- Viewport Fitter: inputs
\* fitToBounds on its own: boxes from a single point to one too large for
\* zoom MIN_ZOOM, on canvases from little more than the padding to a large
\* screen; every box fits every canvas at some zoom from 0 up.
FitCoords == {0, 2, 40000, 400000}

FitBoxes ==
  {b \in [minLng : FitCoords, minLat : FitCoords, maxLng : FitCoords, maxLat : FitCoords] :
     b.minLng <= b.maxLng /\ b.minLat <= b.maxLat}

FitSizes == [width : {500, 1000, 1920}, height : {100, 800}]

\* fitToBounds(bounds, size) is called and returns.
FitApply ==
  /\ fit.bounds # <<>>
  /\ fit.view = <<>>
  /\ fit' = [fit EXCEPT !.view = <<FitToBounds(fit.bounds[1], fit.size[1])>>]
  /\ UNCHANGED <<feedVars, indexVars, extractVars, publicData, requests, mcShapes, mcStops,
                 routeStopsMap, activeTab, selectedRouteId, selectedStopId, viewState,
                 initialFittedViewRef, loadPc, lastEvent, backViews, fitRan>>

InitFit ==
  /\ routes = <<>>
  /\ trips = <<>>
  /\ shapes = <<>>
  /\ stops = <<>>
  /\ stopTimes = <<>>
  /\ bpc = "idle"
  /\ pending = {}
  /\ tripToRoute = EmptyObject
  /\ routeStops = EmptyObject
  /\ run = 0
  /\ firstMapFile = Absent
  /\ ExtractStart
  /\ shapesFile = Absent
  /\ stopsFile = Absent
  /\ mapFile = Absent
  /\ CanvasMounted
  /\ NothingServed
  /\ fit \in [bounds : {<<b>> : b \in FitBoxes}, size : {<<c>> : c \in FitSizes},
              view : {<<>>}]

SpecFit == InitFit /\ [][FitApply]_vars

\* ================================================================ properties
\* The feed as the claims describe it, stated over the tables themselves.

\* The route ids whose trimmed short name is a configured one.
ConfiguredRouteIds ==
  {routes[i].route_id :
     i \in {j \in DOMAIN routes : Trim(routes[j].route_short_name) \in Range(SELECT_ROUTES)}}

\* The shape ids referenced by a trip of route r.
CandidateShapes(r) ==
  {trips[i].shape_id : i \in {j \in DOMAIN trips : trips[j].route_id = r /\ trips[j].shape_id # ""}}

\* The rows of shape s with finite longitude and latitude.
ValidPointRows(s) ==
  {i \in DOMAIN shapes :
     /\ shapes[i].shape_id = s
     /\ IsFinite(ToNumber(shapes[i].shape_pt_lon))
     /\ IsFinite(ToNumber(shapes[i].shape_pt_lat))}

ValidCount(s) == Cardinality(ValidPointRows(s))

FeaturesOfRoute(r) == {i \in DOMAIN shapesFile : shapesFile[i].route_id = r}

ShapesEmitted == xpc \in {"shapesWritten", "done"}

\* C1: every selected route with at least one candidate shape that has a
\* valid point gets exactly one feature in the emitted route-lines
\* collection, also when a shape id is referenced by trips of several
\* selected routes.
C1_ExactlyOneFeaturePerRoute ==
  ShapesEmitted =>
    \A r \in selectedRouteIds :
      (\E s \in CandidateShapes(r) : ValidCount(s) > 0) =>
        Cardinality(FeaturesOfRoute(r)) = 1

\* C2: for a selected route with several candidate shapes, the emitted
\* feature is the candidate with the strictly greatest count of valid
\* points, whatever the order of the rows.
C2_GreatestCountSelected ==
  ShapesEmitted =>
    \A r \in selectedRouteIds :
      \A s \in CandidateShapes(r) :
        ( /\ Cardinality(CandidateShapes(r)) >= 2
          /\ \A o \in CandidateShapes(r) \ {s} : ValidCount(s) > ValidCount(o) ) =>
        \E i \in FeaturesOfRoute(r) : shapesFile[i].shape_id = s

\* C3: when several candidate shapes of a route share the greatest valid
\* point count, the emitted one is the tied candidate whose first valid
\* point row is earliest in the Shapes table.
C3_TieKeepsFirstEncountered ==
  ShapesEmitted =>
    \A r \in selectedRouteIds :
      \A s \in CandidateShapes(r) :
        ( /\ ValidCount(s) > 0
          /\ \A o \in CandidateShapes(r) : ValidCount(o) <= ValidCount(s)
          /\ \E o \in CandidateShapes(r) \ {s} : ValidCount(o) = ValidCount(s)
          /\ \A o \in CandidateShapes(r) \ {s} :
               ValidCount(o) = ValidCount(s) =>
                 Min(ValidPointRows(s)) < Min(ValidPointRows(o)) ) =>
        \E i \in FeaturesOfRoute(r) : shapesFile[i].shape_id = s

\* C4: the selected route ids are exactly the route ids whose trimmed short
\* name is one of the configured short names: all ids of a shared short
\* name, and none of an unconfigured one.
C4_SelectedIsUnionOfMatches ==
  xpc # "start" => selectedRouteIds = ConfiguredRouteIds

C4_Witness ==
  /\ xpc = "selected"
  /\ Cardinality(selectedRouteIds) = 2
  /\ Len(routes) = 2
  /\ Trim(routes[1].route_short_name) = Trim(routes[2].route_short_name)
  /\ routes[1].route_short_name # routes[2].route_short_name

\* C5: when no configured short name matches a route, the extractor ends
\* with failure status and both artifact files are as they were before the
\* run (absent or the earlier files): nothing is written.
C5_AbortBeforeAnyOutput ==
  (xpc # "start" /\ ConfiguredRouteIds = {}) =>
    /\ xpc = "exit"
    /\ exitCode = 1
    /\ shapesFile \in {Absent, Stale}
    /\ stopsFile \in {Absent, Stale}

C5_Witness ==
  /\ xpc = "exit"
  /\ Len(routes) = 2
  /\ shapesFile = Stale
  /\ stopsFile = Stale

\* The stop-visit row the index builder's second pass visits in this step.
VisitedStopTime == CHOOSE k \in pending : k \notin pending'

TripIdKnown(t) == \E i \in DOMAIN trips : trips[i].trip_id = t

\* C6: a stop-visit row whose trip id is in no row of the Trip table leaves
\* the route-stop index as it was: no entry is created and no stop id added.
C6_DanglingStopVisitSkipped ==
  [][ (bpc = "stopTimes" /\ pending # {} /\ pending' # pending) =>
        (~TripIdKnown(stopTimes[VisitedStopTime].trip_id) => routeStops' = routeStops)
    ]_vars

\* The stop ids visited by some trip row of route r.
StopsOfRoute(r) ==
  {stopTimes[k].stop_id :
     k \in {n \in DOMAIN stopTimes :
              \E i \in DOMAIN trips :
                trips[i].trip_id = stopTimes[n].trip_id /\ trips[i].route_id = r}}

\* C7: the written index maps every route id to exactly the stop ids visited
\* by a trip of that route, and has no entry for a route without one.
C7_IndexIsExactlyStopsOfRoute ==
  bpc = "done" =>
    /\ \A r \in DOMAIN mapFile : Range(mapFile[r]) = StopsOfRoute(r) /\ StopsOfRoute(r) # {}
    /\ \A i \in DOMAIN trips :
         StopsOfRoute(trips[i].route_id) # {} => trips[i].route_id \in DOMAIN mapFile

ReachableStop(s) ==
  \E k \in DOMAIN stopTimes :
    /\ stopTimes[k].stop_id = s
    /\ \E i \in DOMAIN trips :
         trips[i].trip_id = stopTimes[k].trip_id /\ trips[i].route_id \in ConfiguredRouteIds

\* C9: every emitted stop feature is reachable through a trip of a selected
\* route, and every stop row with numeric coordinates that is so reachable
\* is emitted.
C9_StopsAreExactlyReachable ==
  xpc = "done" =>
    /\ \A i \in DOMAIN stopsFile : ReachableStop(stopsFile[i].stop_id)
    /\ \A j \in DOMAIN stops :
         ( /\ stops[j].stop_lon \in NumberTexts
           /\ stops[j].stop_lat \in NumberTexts
           /\ ReachableStop(stops[j].stop_id) ) =>
         \E i \in DOMAIN stopsFile : stopsFile[i].stop_id = stops[j].stop_id

C9_Witness ==
  /\ xpc = "done"
  /\ Len(stopsFile) = 1
  /\ stopsFile[1].stop_id = "s1"
  /\ \E k \in DOMAIN stopTimes : stopTimes[k].stop_id = "s2" /\ stopTimes[k].trip_id = "t9"
  /\ \E i \in DOMAIN trips : trips[i].route_id = "r2"
  /\ stops[2].stop_lat = "1"

\* The view fitted over every loaded route feature, <<>> when they hold no
\* finite coordinate.
SystemFit ==
  LET b == CalculateBounds(mcShapes) IN
  IF b # <<>> THEN <<FitToBounds(b[1], CanvasSize)>> ELSE <<>>

C11_SystemViewCapturedOnce ==
  [][
     /\ (initialFittedViewRef' # initialFittedViewRef) =>
          (/\ initialFittedViewRef = <<>>
           /\ loadPc = "fetchMap" /\ loadPc' = "loaded")
     /\ (lastEvent' \in {"select", "back", "tab", "pan"}) =>
          (initialFittedViewRef' = initialFittedViewRef)
     /\ \A i, j \in DOMAIN backViews' : backViews'[i] = backViews'[j]
  ]_vars

C11_Witness ==
  /\ Len(backViews) >= 2
  /\ initialFittedViewRef # <<>>
  /\ backViews[1] = initialFittedViewRef[1]
  /\ backViews[2] = initialFittedViewRef[1]
  /\ lastEvent = "pan"

\* C12: right after a stop of the loaded stop collection is selected, the
\* camera is at zoom 16 and centred exactly on that stop's coordinates (no
\* bounding-box fit, no padding offset).
C12_StopSelectionCentresOnStop ==
  (lastEvent = "select" /\ Selected(selectedStopId)) =>
    \E i \in DOMAIN mcStops :
      /\ mcStops[i].stop_id = selectedStopId
      /\ viewState = [longitude |-> mcStops[i].coordinates[1],
                      latitude |-> mcStops[i].coordinates[2],
                      zoom |-> 16]

C12_Witness ==
  /\ lastEvent = "select"
  /\ selectedStopId = "s2"
  /\ Len(mcStops) = 2
  /\ mcStops[2].stop_id = "s2"
  /\ viewState = [longitude |-> 6, latitude |-> 6, zoom |-> 16]

\* C13: no fit runs before the geometry it frames has resolved: while the
\* fetches are pending (or have failed) no fit has run and no system view is
\* captured; the system-wide fit runs only in the step that commits a
\* non-empty route collection after all three fetches resolved; a route fit
\* runs only for a selected route that has a feature in the loaded shapes.
C13_NoFitBeforeGeometryResolved ==
  /\ loadPc # "loaded" => (fitRan = {} /\ initialFittedViewRef = <<>>)
  /\ "system" \in fitRan =>
       (loadPc = "loaded" /\ lastEvent = "fetch" /\ Len(mcShapes) > 0
        /\ mcShapes = publicData.shapes[1])
  /\ "route" \in fitRan =>
       (/\ loadPc = "loaded"
        /\ Selected(selectedRouteId)
        /\ \E i \in DOMAIN mcShapes : DisplayId(mcShapes[i]) = selectedRouteId)

C13_Witness ==
  /\ fitRan = {"route"}
  /\ selectedRouteId = "r2"
  /\ Len(mcShapes) = 2
  /\ DisplayId(mcShapes[1]) = "r1"
  /\ viewState.zoom = MIN_ZOOM

\* The coordinate pairs of a feature list with finite longitude and latitude.
FinitePairs(features) ==
  LET pairs == UNION {Range(features[i].coordinates) : i \in DOMAIN features}
  IN  {p \in pairs : p[1] # NotFinite /\ p[2] # NotFinite}

\* What calculateBounds owes for a feature list: null exactly when no pair is
\* finite, else the least box around the finite pairs alone.
BoundsSkipInvalid(features) ==
  LET b == CalculateBounds(features)
      ps == FinitePairs(features)
  IN  IF ps = {} THEN b = <<>>
      ELSE /\ b # <<>>
           /\ \A p \in ps : /\ b[1].minLng <= p[1] /\ p[1] <= b[1].maxLng
                             /\ b[1].minLat <= p[2] /\ p[2] <= b[1].maxLat
           /\ \E p \in ps : p[1] = b[1].minLng
           /\ \E p \in ps : p[1] = b[1].maxLng
           /\ \E p \in ps : p[2] = b[1].minLat
           /\ \E p \in ps : p[2] = b[1].maxLat

\* The step selects a route whose features hold no finite pair.
SelectsRouteWithoutBounds ==
  /\ lastEvent' = "select" /\ Selected(selectedRouteId')
  /\ CalculateBounds(FilteredShapes(mcShapes, selectedRouteId')) = <<>>

\* The step commits a loaded, non-empty route collection with no finite pair.
LoadsRoutesWithoutBounds ==
  /\ loadPc = "fetchMap" /\ loadPc' = "loaded"
  /\ Len(mcShapes') > 0 /\ CalculateBounds(mcShapes') = <<>>

FitBox == fit.bounds[1]
FitCanvas == fit.size[1]
FitView == fit.view[1]
FitTargetW == FitCanvas.width - UI_PADDING.left - UI_PADDING.right
FitTargetH == FitCanvas.height - UI_PADDING.top - UI_PADDING.bottom

\* Both corners of the box re-project inside the canvas less its padding.
CornersInsidePadding ==
  /\ 2 * WorldScale * UI_PADDING.left <= ProjectX(FitBox.minLng, FitView, FitCanvas)
  /\ ProjectX(FitBox.maxLng, FitView, FitCanvas)
       <= 2 * WorldScale * (FitCanvas.width - UI_PADDING.right)
  /\ 2 * WorldScale * UI_PADDING.top <= ProjectY(FitBox.maxLat, FitView, FitCanvas)
  /\ ProjectY(FitBox.minLat, FitView, FitCanvas)
       <= 2 * WorldScale * (FitCanvas.height - UI_PADDING.bottom)

\* The box spans no more than the unpadded canvas at zoom MIN_ZOOM.
FitsAtMinZoom ==
  /\ FitsAt(FitBox.maxLng - FitBox.minLng, FitTargetW, MIN_ZOOM)
  /\ FitsAt(FitBox.maxLat - FitBox.minLat, FitTargetH, MIN_ZOOM)

\* C15: every camera fitToBounds returns has its zoom in [MIN_ZOOM, MAX_ZOOM],
\* for every box, a single point included, and every canvas size.
C15_FitZoomWithinRange ==
  fit.view # <<>> => (MIN_ZOOM <= FitView.zoom /\ FitView.zoom <= MAX_ZOOM)

C15_Witness ==
  /\ fit.view # <<>>
  /\ FitBox.minLng = FitBox.maxLng /\ FitBox.minLat = FitBox.maxLat
  /\ FitView.zoom = MAX_ZOOM

PointRowsKept(s) == ValidPointRows(s)
RowCoordinates(i) ==
  <<ToNumber(shapes[i].shape_pt_lon)[1], ToNumber(shapes[i].shape_pt_lat)[1]>>
RowSeq(i) == OrElse(ToNumber(shapes[i].shape_pt_sequence), 0)

\* The ways to list the rows of a set one after the other.
Orderings(rows) ==
  {p \in [1..Cardinality(rows) -> rows] : \A a, b \in DOMAIN p : a # b => p[a] # p[b]}

\* C17: the coordinates of every emitted route-line feature are the points
\* of its shape listed in non-decreasing sequence-number order, whatever the
\* order of the point rows in the Shapes table.
C17_PathInSequenceOrder ==
  ShapesEmitted =>
    \A f \in DOMAIN shapesFile :
      \E p \in Orderings(PointRowsKept(shapesFile[f].shape_id)) :
        /\ Len(shapesFile[f].coordinates) = Len(p)
        /\ \A k \in DOMAIN p : shapesFile[f].coordinates[k] = RowCoordinates(p[k])
        /\ \A k \in DOMAIN p : k > 1 => RowSeq(p[k - 1]) <= RowSeq(p[k])

C17_Witness ==
  /\ ShapesEmitted
  /\ Len(shapes) >= 2
  /\ shapes[1].shape_id = "sA" /\ shapes[1].shape_pt_sequence = "2"
  /\ shapes[1].shape_pt_lon = "1"
  /\ shapes[2].shape_id = "sA" /\ shapes[2].shape_pt_sequence = "1"
  /\ shapes[2].shape_pt_lon = "3"
  /\ \E f \in DOMAIN shapesFile :
       /\ shapesFile[f].shape_id = "sA"
       /\ Len(shapesFile[f].coordinates) >= 2
       /\ shapesFile[f].coordinates[1] = <<3, 2>>
       /\ shapesFile[f].coordinates[2] = <<1, 2>>

\* The rows of shape s whose longitude and latitude texts are finite numbers.
RowsWithFiniteCoordinates(s) ==
  {i \in DOMAIN shapes :
     /\ shapes[i].shape_id = s
     /\ shapes[i].shape_pt_lon \in NumberTexts
     /\ shapes[i].shape_pt_lat \in NumberTexts}

\* C18: a point row whose longitude or latitude is missing, blank or
\* non-numeric is in no emitted path and is not counted when the
\* representative shape is chosen: every emitted path holds exactly the rows
\* of its shape with finite coordinates, and no other candidate shape of the
\* route has more such rows.
C18_InvalidPointsDiscarded ==
  ShapesEmitted =>
    \A f \in DOMAIN shapesFile :
      LET valid == RowsWithFiniteCoordinates(shapesFile[f].shape_id) IN
      /\ Len(shapesFile[f].coordinates) = Cardinality(valid)
      /\ \A k \in DOMAIN shapesFile[f].coordinates :
           \E i \in valid : shapesFile[f].coordinates[k] = RowCoordinates(i)
      /\ \A s \in CandidateShapes(shapesFile[f].route_id) :
           Cardinality(RowsWithFiniteCoordinates(s)) <= Cardinality(valid)

\* The trip rows of a selected route that carry no shape id.
ShapelessSelectedTrips ==
  {i \in DOMAIN trips :
     trips[i].route_id \in selectedRouteIds /\ trips[i].shape_id \in {"", Undefined}}

\* C19: once the extractor is done, a trip row of a selected route with a
\* missing or blank shape id has added no shape id to the selected shapes
\* and no shape of its own to the route lines, its trip id is among the
\* selected trips, and every stop it visits is in the emitted stops.
C19_ShapelessTripStillCounts ==
  xpc = "done" =>
    \A i \in ShapelessSelectedTrips :
      /\ selectedShapeIds \cap {"", Undefined} = {}
      /\ \A f \in DOMAIN shapesFile : shapesFile[f].shape_id \notin {"", Undefined}
      /\ trips[i].trip_id \in selectedTripIds
      /\ \A j \in DOMAIN stopTimes :
           stopTimes[j].trip_id = trips[i].trip_id =>
             \E k \in DOMAIN stopsFile : stopsFile[k].stop_id = stopTimes[j].stop_id

C19_Witness ==
  /\ xpc = "done"
  /\ Len(trips) = 2
  /\ trips[1] = [trip_id |-> "t2", route_id |-> "r1", shape_id |-> Undefined]
  /\ trips[2] = [trip_id |-> "t1", route_id |-> "r1", shape_id |-> ""]
  /\ shapesFile = <<>>
  /\ Len(stopsFile) = 2

\* The selected routes none of whose candidate shapes has a point row with
\* finite coordinates.
RoutesWithoutValidShape ==
  {r \in selectedRouteIds :
     \A s \in CandidateShapes(r) : RowsWithFiniteCoordinates(s) = {}}

\* C20: once the extractor is done, a selected route without a valid
\* candidate shape has no route-line feature, every other selected route has
\* one, the stops collection is written and the exit code is 0.
C20_RouteWithoutValidShapeSkipped ==
  xpc = "done" =>
    /\ \A r \in RoutesWithoutValidShape : FeaturesOfRoute(r) = {}
    /\ \A r \in selectedRouteIds \ RoutesWithoutValidShape : FeaturesOfRoute(r) # {}
    /\ {stopsFile[k].stop_id : k \in DOMAIN stopsFile} = {"s1", "s2"}
    /\ exitCode = 0

\* C21: the path of every emitted route-line feature consists of exactly the
\* points with finite coordinates of the one shape named by its shape_id
\* property, and a trip of the feature's route references that shape.
C21_PathFromExactlyOneShape ==
  ShapesEmitted =>
    \A f \in DOMAIN shapesFile :
      /\ \E p \in Orderings(RowsWithFiniteCoordinates(shapesFile[f].shape_id)) :
           /\ Len(shapesFile[f].coordinates) = Len(p)
           /\ \A k \in DOMAIN p : shapesFile[f].coordinates[k] = RowCoordinates(p[k])
      /\ \E t \in DOMAIN trips :
           /\ trips[t].route_id = shapesFile[f].route_id
           /\ trips[t].shape_id = shapesFile[f].shape_id

\* The loaded route features carry pairwise different route ids, as the
\* extractor emits them.
OneFeaturePerRouteId ==
  \A i, j \in DOMAIN mcShapes : mcShapes[i].route_id = mcShapes[j].route_id => i = j

\* The loaded features listed under a display key, and their route ids.
FeaturesUnderKey(key) == {i \in DOMAIN mcShapes : DisplayId(mcShapes[i]) = key}
RouteIdsUnderKey(key) == {mcShapes[i].route_id : i \in FeaturesUnderKey(key)}

\* The least box around the finite pairs of all features under a display
\* key, <<>> when they hold none.
KeyBox(key) ==
  LET ps == {p \in UNION {Range(mcShapes[i].coordinates) : i \in FeaturesUnderKey(key)} :
               p[1] # NotFinite /\ p[2] # NotFinite}
      lngs == {p[1] : p \in ps}
      lats == {p[2] : p \in ps}
  IN  IF ps = {} THEN <<>>
      ELSE <<[minLng |-> CHOOSE x \in lngs : \A y \in lngs : x <= y,
              minLat |-> CHOOSE x \in lats : \A y \in lats : x <= y,
              maxLng |-> CHOOSE x \in lngs : \A y \in lngs : x >= y,
              maxLat |-> CHOOSE x \in lats : \A y \in lats : x >= y]>>

\* C22 as stated: while a route is selected, the geometry handed to the Viewport
\* Fitter (filteredShapes) is exactly one feature, also when several route
\* ids of the loaded collection share one short name.
C22_RouteFitOverOneFeature ==
  (OneFeaturePerRouteId /\ Selected(selectedRouteId)) =>
    Len(FilteredShapes(mcShapes, selectedRouteId)) = 1

\* C22 as amended: the geometry handed to the Viewport Fitter on a route
\* selection is the union of the loaded features listed under the selected
\* display key (short name, else route id): the camera is the fit over the
\* box of all of them, and it is exactly one feature when one route id only
\* is listed under the key.
C22_RouteFitOverDisplayKey ==
  (lastEvent = "select" /\ Selected(selectedRouteId)) =>
    /\ Len(FilteredShapes(mcShapes, selectedRouteId)) =
         Cardinality(FeaturesUnderKey(selectedRouteId))
    /\ (OneFeaturePerRouteId /\ Cardinality(RouteIdsUnderKey(selectedRouteId)) = 1) =>
         Len(FilteredShapes(mcShapes, selectedRouteId)) = 1
    /\ KeyBox(selectedRouteId) # <<>> =>
         viewState = FitToBounds(KeyBox(selectedRouteId)[1], CanvasSize)

\* Route 10 is selected and two route ids with finite paths share that name.
C22_Witness ==
  /\ lastEvent = "select"
  /\ selectedRouteId = "10"
  /\ RouteIdsUnderKey("10") = {"r1", "r2"}
  /\ OneFeaturePerRouteId
  /\ \A i \in DOMAIN mcShapes : CalculateBounds(<<mcShapes[i]>>) # <<>>
  /\ fitRan = {"route"}

\* The GETs sent for one artifact so far.
GetsFor(artifact) == Cardinality({i \in DOMAIN requests : requests[i] = artifact})

\* The loader calls the load effect has finished.
LoaderCallsDone ==
  CASE loadPc = "fetchShapes" -> 0
    [] loadPc = "fetchStops" -> 1
    [] loadPc = "fetchMap" -> 2
    [] loadPc = "loaded" -> 3
    [] OTHER -> Len(requests)

\* C23: every loader call sends exactly one GET, and a response that is not
\* ok makes the call fail for that artifact: nothing is requested again, and
\* no data (stale, cached or partial) comes out of the failed call.
C23_OneGetPerLoaderCall ==
  /\ Len(requests) = LoaderCallsDone
  /\ \A a \in DOMAIN publicData : GetsFor(a) <= 1
  /\ \A i \in DOMAIN requests :
       Fetch(requests[i]) = <<>> =>
         /\ loadPc = "failed"
         /\ i = Len(requests)
         /\ mcShapes = <<>> /\ mcStops = <<>> /\ routeStopsMap = EmptyObject

\* The stops loader has failed after the shapes loader succeeded.
C23_Witness ==
  /\ loadPc = "failed"
  /\ requests = <<"shapes", "stops">>
  /\ Fetch("shapes") # <<>> /\ Fetch("stops") = <<>>

\* C24: once the load effect has stored the route-stop index, no handler
\* (tab change, selection, back, hover, filter, pan) changes routeStopsMap
\* or any of its stop sets.
C24_IndexReadOnlyOnceLoaded ==
  [][loadPc = "loaded" => routeStopsMap' = routeStopsMap]_vars

\* A loaded, non-empty index after a route was selected and left again.
C24_Witness ==
  /\ loadPc = "loaded"
  /\ routeStopsMap # EmptyObject
  /\ lastEvent \in {"pan", "hover", "filter"}
  /\ Len(backViews) > 0

\* The stop ids the index lists for the route ids under a display key.
StopIdsUnderKey(key) ==
  UNION {routeStopsMap[r] : r \in RouteIdsUnderKey(key) \cap DOMAIN routeStopsMap}

\* The stops on display.
ShownStops ==
  FilteredStops(mcStops, mcShapes, routeStopsMap, activeTab, selectedRouteId, selectedStopId)

\* C25: with a route selected and no stop selected, the stops on display
\* are exactly the loaded stops whose id the index lists for the route id(s)
\* of the selected route, in their loaded order; no stop of another route is
\* shown, whatever route ids and short names the loaded data combines.
C25_StopsOfSelectedRouteOnly ==
  (loadPc = "loaded" /\ Selected(selectedRouteId) /\ ~Selected(selectedStopId)) =>
    LET Served(s) == s.stop_id \in StopIdsUnderKey(selectedRouteId)
    IN  ShownStops = SelectSeq(mcStops, Served)

\* C26: in every reachable state at most one of selectedRouteId and
\* selectedStopId is set, and no step replaces a selection by another one:
\* from a selected route or stop a step leads to the same selection or to no
\* selection.
C26_OneSelectionAtATime ==
  [][
     /\ ~(Selected(selectedRouteId') /\ Selected(selectedStopId'))
     /\ Selected(selectedRouteId) =>
          (selectedRouteId' \in {selectedRouteId, Null} /\ ~Selected(selectedStopId'))
     /\ Selected(selectedStopId) =>
          (selectedStopId' \in {selectedStopId, Null} /\ ~Selected(selectedRouteId'))
  ]_vars

\* A stop was selected after a route selection was left by back navigation.
C26_Witness ==
  /\ lastEvent = "select"
  /\ Selected(selectedStopId)
  /\ Len(backViews) > 0
  /\ Len(mcShapes) > 0

\* C27: the initial load is all-or-nothing. Until all three fetches have
\* succeeded (while one is pending, and for good once one has failed) none of
\* shapes, stops and routeStopsMap is populated, no fitted view is captured
\* and the program has put the camera nowhere but on INITIAL_VIEW_STATE (the
\* user may have panned it); once loaded, all three hold what was fetched.
C27_LoadAllOrNothing ==
  /\ loadPc # "loaded" =>
       /\ mcShapes = <<>> /\ mcStops = <<>> /\ routeStopsMap = EmptyObject
       /\ initialFittedViewRef = <<>>
       /\ viewState = INITIAL_VIEW_STATE \/ viewState \in UserViews
  /\ loadPc = "loaded" =>
       /\ mcShapes = Fetch("shapes")[1]
       /\ mcStops = Fetch("stops")[1]
       /\ routeStopsMap = LoadedRouteStopsMap(Fetch("routeStops")[1])

\* The third fetch failed after route features and stops had arrived, and
\* the user changed tab afterwards.
C27_Witness ==
  /\ loadPc = "failed"
  /\ requests = <<"shapes", "stops", "routeStops">>
  /\ Len(Fetch("shapes")[1]) > 0 /\ Len(Fetch("stops")[1]) > 0
  /\ lastEvent = "tab"
  /\ activeTab = "routes"

\* C28: when both scripts have run on the same feed, every stop id the
\* index lists under a route id the extractor selected is in the extractor's
\* reachable stop-id set, and every such stop whose Stop row has finite
\* coordinates is in the emitted stops collection, also when the Trip table
\* repeats a trip id.
C28_IndexStopsAreExtracted ==
  (bpc = "done" /\ xpc = "done") =>
    \A r \in selectedRouteIds \cap DOMAIN mapFile :
      \A s \in Range(mapFile[r]) :
        /\ s \in StopIds(stopTimes, selectedTripIds)
        /\ \A j \in DOMAIN stops :
             ( /\ stops[j].stop_id = s
               /\ IsFinite(ToNumber(stops[j].stop_lon))
               /\ IsFinite(ToNumber(stops[j].stop_lat)) ) =>
             \E i \in DOMAIN stopsFile : stopsFile[i].stop_id = s

\* Trip t1 is listed under the unselected route first and the selected
\* route last; the index lists both stops under r1 and s1 alone is emitted.
C28_Witness ==
  /\ bpc = "done" /\ xpc = "done"
  /\ Len(trips) >= 2
  /\ trips[1] = [trip_id |-> "t1", route_id |-> "r2", shape_id |-> ""]
  /\ trips[2] = [trip_id |-> "t1", route_id |-> "r1", shape_id |-> ""]
  /\ "r1" \in DOMAIN mapFile
  /\ Range(mapFile["r1"]) = {"s1", "s2"}
  /\ Len(stopsFile) = 1

\* The first stop-visit row, in table order, that puts stop s under route r.
FirstVisit(r, s) ==
  Min({k \in DOMAIN stopTimes :
         stopTimes[k].stop_id = s /\ GetProp(tripToRoute, stopTimes[k].trip_id) = r})

C30_TabChangeClearsSelection ==
  [][
     /\ lastEvent' = "tab" =>
          (activeTab' \in Tabs /\ selectedRouteId' = Null /\ selectedStopId' = Null)
     /\ activeTab' # activeTab => lastEvent' = "tab"
     /\ lastEvent' = "select" =>
          /\ activeTab' = activeTab
          /\ Selected(selectedRouteId') # Selected(selectedStopId')
  ]_vars

\* The stops tab was opened after a route selection had been made and left,
\* and a stop is selected on it.
C30_Witness ==
  /\ lastEvent = "select"
  /\ activeTab = "stops"
  /\ Selected(selectedStopId)
  /\ Len(backViews) > 0
  /\ \E i \in DOMAIN backViews : backViews[i] # INITIAL_VIEW_STATE

====
